---- MODULE Spec2Model ----
(***************************************************************************)
(* The model store of model.py: train_model (load the persisted artifact   *)
(* if both files exist, else train, compute the feature ranges and persist *)
(* both) and plot_feature_importance (the importance ranking).             *)
(*                                                                         *)
(* Numbers are fixed-point: the integer v stands for v / Scale, so that    *)
(* int() is a truncation that can change a value.                          *)
(* A file, a local variable and an exception are <<>> when absent/unset    *)
(* and <<value>> when present.                                             *)
(***************************************************************************)
EXTENDS Integers, Sequences, FiniteSets, TLC

VARIABLES
    disk,            \* the working directory: path -> <<>> | <<content>>
    pc,              \* per call: the statement of train_model it is at
    df,              \* per call: the training table passed in
    model,           \* per call: the local `model`
    feature_ranges,  \* per call: the local `feature_ranges`
    exc,             \* per call: the exception that left train_model
    at_call,         \* per call: the disk as it was when the call began
    writer,          \* per path: <<the call whose joblib.dump wrote it last>>
    plot,            \* the last plot_feature_importance call and its outcome
    app,             \* the dashboard script run: where it is and its locals
    session,         \* the browser session: widget states and the pending click
    trend            \* the last create_country_trend_plot call and its figure

vars == <<disk, pc, df, model, feature_ranges, exc, at_call, writer, plot, app, session, trend>>

----------------------------------------------------------------------------
(* Bounds *)

NumCalls == 2
MaxRows == 2
Scale == 2
ImpUnits == 3
MaxNames == 4
MaxTrendRows == 3

(* Program constants *)

NEstimators == 100
RandomState == 42

model_path == "model.joblib"
ranges_path == "feature_ranges.joblib"
Paths == {model_path, ranges_path}

GDP == "GDP per capita"
POV == "headcount_ratio_upper_mid_income_povline"
YEAR == "year"
LIFE == "Life Expectancy (IHME)"

features == <<GDP, POV, YEAR>>
Features == {features[i] : i \in 1..Len(features)}
Columns == Features \cup {LIFE}

Calls == 1..NumCalls
SeqCalls == {1}

----------------------------------------------------------------------------
(* Training tables *)

\* The values a cell of a column may hold (fixed point, in units of 1/Scale):
\* a year is a whole number or has a fractional part.
CellVals(col) ==
    IF col = YEAR THEN {Scale, Scale + 1}
    ELSE IF col = GDP THEN {0, 1}
    ELSE {Scale}

RowsOver(cs) == {r \in [cs -> 0..(Scale + 1)] : \A c \in cs : r[c] \in CellVals(c)}

SeqsUpTo(S, n) == UNION {[1..k -> S] : k \in 0..n}

\* A table with every required column, or with exactly one of them missing.
ColumnSets == {Columns} \cup {Columns \ {c} : c \in Columns}

Tables ==
    UNION {{[columns |-> cs, rows |-> rs] : rs \in SeqsUpTo(RowsOver(cs), MaxRows)} :
           cs \in ColumnSets}

IsValid(t) == Columns \subseteq t.columns /\ Len(t.rows) > 0

ValidTables == {t \in Tables : IsValid(t)}

\* The tables the concurrent calls are given: the empty table and the one-row
\* tables holding the least and the greatest row.
RowLeast == [c \in Columns |-> CHOOSE v \in CellVals(c) : \A w \in CellVals(c) : v <= w]
RowGreatest == [c \in Columns |-> CHOOSE v \in CellVals(c) : \A w \in CellVals(c) : v >= w]
ConcTables ==
    {[columns |-> Columns, rows |-> rs] : rs \in {<< >>, <<RowLeast>>, <<RowGreatest>>}}

----------------------------------------------------------------------------
(* Pure functions of train_model *)

ColumnValues(t, col) == {t.rows[i][col] : i \in 1..Len(t.rows)}

ColMin(t, col) == CHOOSE v \in ColumnValues(t, col) : \A w \in ColumnValues(t, col) : v <= w

ColMaxSwapped(t, col) == ColMin(t, col)
ColMax(t, col) == CHOOSE v \in ColumnValues(t, col) : \A w \in ColumnValues(t, col) : v >= w

\* int(x): truncation toward zero
IntPart(v) == IF v >= 0 THEN (v \div Scale) * Scale ELSE -(((-v) \div Scale) * Scale)

FeatureRanges(t) ==
    [f \in Features |->
        IF f = YEAR THEN <<IntPart(ColMin(t, YEAR)), IntPart(ColMax(t, YEAR))>>
        ELSE <<ColMin(t, f), ColMax(t, f)>>]

\* RandomForestRegressor(n_estimators=100, random_state=42).fit(X, y): the
\* fitted regressor is determined by its hyper-parameters and what it was
\* fitted on.
RandomForestFit(t) ==
    [X |-> [i \in 1..Len(t.rows) |-> [j \in 1..Len(features) |-> t.rows[i][features[j]]]],
     y |-> [i \in 1..Len(t.rows) |-> t.rows[i][LIFE]],
     n_estimators |-> NEstimators,
     random_state |-> RandomState]

MissingFeaturesAll(t) == Features
MissingFeatures(t) == Features \ t.columns

FitRaisesNever(t) == FALSE
FitRaises(t) == Len(t.rows) = 0

(* The file system *)

NoArtifacts == [p \in Paths |-> << >>]

ExistsNever(d, path) == FALSE
Exists(d, path) == d[path] # << >>

BothExist(d) == d[model_path] # << >> /\ d[ranges_path] # << >>

DumpIfAbsent(d, path, value) == IF d[path] = << >> THEN [d EXCEPT ![path] = value] ELSE d
DumpNothing(d, path, value) == d
Dump(d, path, value) == [d EXCEPT ![path] = value]

LoadModelFile(d, path) == d[model_path]
Load(d, path) == d[path]

\* What a complete training run on t leaves on disk.
Artifact(t) ==
    [p \in Paths |-> IF p = model_path THEN <<RandomForestFit(t)>> ELSE <<FeatureRanges(t)>>]

\* The working directory as earlier runs can have left it: nothing, or the
\* artifact of one earlier run with either file possibly gone.
DisksFrom(tables) ==
    {[p \in Paths |-> IF p \in present THEN Artifact(t)[p] ELSE << >>] :
        t \in tables, present \in SUBSET Paths}

\* The dashboard script before it has run, and a session nothing was
\* rendered in.
Widgets == {"gdp", "poverty_rate", "year"}

AppStart ==
    [stage |-> "train_model", gdp |-> << >>, poverty_rate |-> << >>, year |-> << >>,
     button |-> FALSE, predicted |-> << >>, error |-> << >>]

NoSession == [widgets |-> [w \in Widgets |-> << >>], clicked |-> FALSE]

Exception(type, args, at) == <<[type |-> type, args |-> args, at |-> at]>>

----------------------------------------------------------------------------
(* train_model, statement by statement *)

Active == {"exists_model", "exists_ranges", "load_model", "load_ranges",
           "select_X", "select_y", "fit", "ranges", "dump_model", "dump_ranges"}
Terminal == {"returned", "raised"}

Goto(c, label) == pc' = [pc EXCEPT ![c] = label]

Raise(c, type, args) ==
    /\ exc' = [exc EXCEPT ![c] = Exception(type, args, pc[c])]
    /\ Goto(c, "raised")

Start(c, t) ==
    /\ pc[c] = "idle"
    /\ df' = [df EXCEPT ![c] = t]
    /\ at_call' = [at_call EXCEPT ![c] = disk]
    /\ Goto(c, "exists_model")
    /\ UNCHANGED <<disk, model, feature_ranges, exc, writer, plot, app, session, trend>>

ExistsModel(c) ==
    /\ pc[c] = "exists_model"
    /\ IF Exists(disk, model_path) THEN Goto(c, "exists_ranges") ELSE Goto(c, "select_X")
    /\ UNCHANGED <<disk, df, model, feature_ranges, exc, at_call, writer, plot, app, session, trend>>

ExistsRanges(c) ==
    /\ pc[c] = "exists_ranges"
    /\ IF Exists(disk, ranges_path) THEN Goto(c, "load_model") ELSE Goto(c, "select_X")
    /\ UNCHANGED <<disk, df, model, feature_ranges, exc, at_call, writer, plot, app, session, trend>>

LoadModel(c) ==
    /\ pc[c] = "load_model"
    /\ IF disk[model_path] = << >>
       THEN Raise(c, "FileNotFoundError", {model_path}) /\ UNCHANGED model
       ELSE /\ model' = [model EXCEPT ![c] = Load(disk, model_path)]
            /\ Goto(c, "load_ranges")
            /\ UNCHANGED exc
    /\ UNCHANGED <<disk, df, feature_ranges, at_call, writer, plot, app, session, trend>>

LoadRanges(c) ==
    /\ pc[c] = "load_ranges"
    /\ IF disk[ranges_path] = << >>
       THEN Raise(c, "FileNotFoundError", {ranges_path}) /\ UNCHANGED feature_ranges
       ELSE /\ feature_ranges' = [feature_ranges EXCEPT ![c] = Load(disk, ranges_path)]
            /\ Goto(c, "returned")
            /\ UNCHANGED exc
    /\ UNCHANGED <<disk, df, model, at_call, writer, plot, app, session, trend>>

SelectX(c) ==
    /\ pc[c] = "select_X"
    /\ IF MissingFeatures(df[c]) # {}
       THEN Raise(c, "KeyError", MissingFeatures(df[c]))
       ELSE Goto(c, "select_y") /\ UNCHANGED exc
    /\ UNCHANGED <<disk, df, model, feature_ranges, at_call, writer, plot, app, session, trend>>

SelectY(c) ==
    /\ pc[c] = "select_y"
    /\ IF LIFE \notin df[c].columns
       THEN Raise(c, "KeyError", {LIFE})
       ELSE Goto(c, "fit") /\ UNCHANGED exc
    /\ UNCHANGED <<disk, df, model, feature_ranges, at_call, writer, plot, app, session, trend>>

Fit(c) ==
    /\ pc[c] = "fit"
    /\ IF FitRaises(df[c])
       THEN Raise(c, "ValueError", {}) /\ UNCHANGED model
       ELSE /\ model' = [model EXCEPT ![c] = <<RandomForestFit(df[c])>>]
            /\ Goto(c, "ranges")
            /\ UNCHANGED exc
    /\ UNCHANGED <<disk, df, feature_ranges, at_call, writer, plot, app, session, trend>>

\* On a table without rows min() and max() are NaN and int(NaN) raises.
Ranges(c) ==
    /\ pc[c] = "ranges"
    /\ IF Len(df[c].rows) = 0
       THEN Raise(c, "ValueError", {}) /\ UNCHANGED feature_ranges
       ELSE /\ feature_ranges' = [feature_ranges EXCEPT ![c] = <<FeatureRanges(df[c])>>]
            /\ Goto(c, "dump_model")
            /\ UNCHANGED exc
    /\ UNCHANGED <<disk, df, model, at_call, writer, plot, app, session, trend>>

DumpModel(c) ==
    /\ pc[c] = "dump_model"
    /\ disk' = Dump(disk, model_path, model[c])
    /\ writer' = [writer EXCEPT ![model_path] = <<c>>]
    /\ Goto(c, "dump_ranges")
    /\ UNCHANGED <<df, model, feature_ranges, exc, at_call, plot, app, session, trend>>

DumpRanges(c) ==
    /\ pc[c] = "dump_ranges"
    /\ disk' = Dump(disk, ranges_path, feature_ranges[c])
    /\ writer' = [writer EXCEPT ![ranges_path] = <<c>>]
    /\ Goto(c, "returned")
    /\ UNCHANGED <<df, model, feature_ranges, exc, at_call, plot, app, session, trend>>

\* The caller's script run ends; its next run calls train_model afresh.
Reset(c) ==
    /\ pc[c] \in Terminal
    /\ pc' = [pc EXCEPT ![c] = "idle"]
    /\ df' = [df EXCEPT ![c] = [columns |-> {}, rows |-> << >>]]
    /\ model' = [model EXCEPT ![c] = << >>]
    /\ feature_ranges' = [feature_ranges EXCEPT ![c] = << >>]
    /\ exc' = [exc EXCEPT ![c] = << >>]
    /\ at_call' = [at_call EXCEPT ![c] = NoArtifacts]
    /\ UNCHANGED <<disk, writer, plot, app, session, trend>>

----------------------------------------------------------------------------
(* plot_feature_importance *)

\* The names the dashboard passes; a caller may pass any list of them.
DisplayNames == {"GDP per capita", "Poverty Rate", "Year"}
NameLists == SeqsUpTo(DisplayNames, MaxNames)

RECURSIVE SumTo(_, _)
SumTo(v, n) == IF n = 0 THEN 0 ELSE v[n] + SumTo(v, n - 1)

\* model.feature_importances_: one non-negative score per fitted feature,
\* summing to one (ImpUnits units).
ImportanceVectors ==
    {v \in [1..Len(features) -> 0..ImpUnits] : SumTo(v, Len(features)) = ImpUnits}

\* pd.DataFrame({'Feature': ..., 'Importance': ...}) raises when the two
\* columns differ in length.
FrameRaises(names, importance) == Len(names) # Len(importance)

DataFrame(names, importance) ==
    [i \in 1..Len(names) |-> [Feature |-> names[i], Importance |-> importance[i]]]

Perms(n) == {p \in [1..n -> 1..n] : \A i, j \in 1..n : p[i] = p[j] => i = j}

InOrderDescending(a, b) == a >= b
InOrder(a, b) == a <= b

\* sort_values('Importance', ascending=True): the default sort is not
\* stable, so rows with equal scores may come out in any order.
SortValues(frame) ==
    {[i \in 1..Len(frame) |-> frame[p[i]]] :
        p \in {q \in Perms(Len(frame)) :
                 \A i, j \in 1..Len(frame) :
                     i < j => InOrder(frame[q[i]].Importance, frame[q[j]].Importance)}}

\* px.bar(importance_df, x='Importance', y='Feature', orientation='h')
Bar(frame) ==
    [x |-> [i \in 1..Len(frame) |-> frame[i].Importance],
     y |-> [i \in 1..Len(frame) |-> frame[i].Feature]]

PlotFeatureImportance ==
    /\ plot = << >>
    /\ \E names \in NameLists, importance \in ImportanceVectors :
          IF FrameRaises(names, importance)
          THEN plot' = <<[features |-> names, importance |-> importance,
                          fig |-> << >>,
                          exc |-> Exception("ValueError", {}, "DataFrame")]>>
          ELSE \E sorted \in SortValues(DataFrame(names, importance)) :
                  plot' = <<[features |-> names, importance |-> importance,
                             fig |-> <<Bar(sorted)>>,
                             exc |-> << >>]>>
    /\ UNCHANGED <<disk, pc, df, model, feature_ranges, exc, at_call, writer, app, session, trend>>

\* The figure is handed to st.plotly_chart and the script run ends.
PlotlyChart ==
    /\ plot # << >>
    /\ plot' = << >>
    /\ UNCHANGED <<disk, pc, df, model, feature_ranges, exc, at_call, writer, app, session, trend>>

----------------------------------------------------------------------------
(* The dashboard script, tab 1: train_model, three number inputs, the button *)

\* The tables load_data hands the script: up to MaxRows rows, each the least
\* row or a row of a later whole year with the greater GDP.
RowLater == [c \in Columns |-> IF c = YEAR THEN Scale + Scale ELSE RowGreatest[c]]
AppTables ==
    {[columns |-> Columns, rows |-> rs] : rs \in SeqsUpTo({RowLeast, RowLater}, MaxRows)}

\* The feature whose range bounds a widget.
WidgetFeatureCopied(w) == GDP
WidgetFeature(w) ==
    IF w = "gdp" THEN GDP ELSE IF w = "poverty_rate" THEN POV ELSE YEAR

\* float(x) of a number is that number.
Float(v) == v

\* The min_value, max_value and value arguments of the widget's number_input;
\* the year widget is an integer input.
NumberInputArgs(w, r) ==
    IF w = "year"
    THEN [min |-> IntPart(r[WidgetFeature(w)][1]),
          max |-> IntPart(r[WidgetFeature(w)][2]),
          value |-> IntPart(r[WidgetFeature(w)][2]),
          whole |-> TRUE]
    ELSE [min |-> Float(r[WidgetFeature(w)][1]),
          max |-> Float(r[WidgetFeature(w)][2]),
          value |-> Float(r[WidgetFeature(w)][1]),
          whole |-> FALSE]

\* The values the rendered widget lets the user set.
Accepts(args) == {v \in args.min..args.max : args.whole => v % Scale = 0}

\* st.number_input: the value the user left in this very widget (same
\* arguments), else its default; a default outside the bounds is an error.
NumberInput(w) ==
    /\ app.stage = w
    /\ pc[1] = "returned"
    /\ LET args == NumberInputArgs(w, feature_ranges[1][1])
           old == session.widgets[w]
           v == IF old # << >> /\ old[1].args = args THEN old[1].value ELSE args.value
       IN IF args.value < args.min \/ args.value > args.max
          THEN /\ app' = [app EXCEPT !.stage = "done",
                                     !.error = Exception("StreamlitAPIException", {w}, w)]
               /\ UNCHANGED session
          ELSE /\ app' = [app EXCEPT ![w] = <<v>>,
                                     !.stage = IF w = "gdp" THEN "poverty_rate"
                                               ELSE IF w = "poverty_rate" THEN "year"
                                               ELSE "button"]
               /\ session' = [session EXCEPT !.widgets[w] = <<[args |-> args, value |-> v]>>]
    /\ UNCHANGED <<disk, pc, df, model, feature_ranges, exc, at_call, writer, plot, trend>>

\* train_model has returned: the script goes on to the first widget.
AfterTrainModel ==
    /\ app.stage = "train_model"
    /\ pc[1] = "returned"
    /\ app' = [app EXCEPT !.stage = "gdp"]
    /\ UNCHANGED <<disk, pc, df, model, feature_ranges, exc, at_call, writer, plot,
                   session, trend>>

\* st.button: True in the run that the click started, and only in it.
Button ==
    /\ app.stage = "button"
    /\ app' = [app EXCEPT !.button = session.clicked, !.stage = "predict"]
    /\ session' = [session EXCEPT !.clicked = FALSE]
    /\ UNCHANGED <<disk, pc, df, model, feature_ranges, exc, at_call, writer, plot, trend>>

\* if st.button(...): prediction = predict_life_expectancy(model, gdp, poverty_rate, year)
Predict ==
    /\ app.stage = "predict"
    /\ app' = [app EXCEPT
                 !.stage = "done",
                 !.predicted = IF app.button
                               THEN <<[model |-> model[1], gdp |-> app.gdp[1],
                                       poverty_rate |-> app.poverty_rate[1],
                                       year |-> app.year[1]]>>
                               ELSE << >>]
    /\ UNCHANGED <<disk, pc, df, model, feature_ranges, exc, at_call, writer, plot,
                   session, trend>>

\* The script run ends (at its last line, or where train_model raised); the
\* session stays.
ScriptEnds ==
    /\ app.stage = "done" \/ pc[1] = "raised"
    /\ app' = AppStart
    /\ pc' = [pc EXCEPT ![1] = "idle"]
    /\ df' = [df EXCEPT ![1] = [columns |-> {}, rows |-> << >>]]
    /\ model' = [model EXCEPT ![1] = << >>]
    /\ feature_ranges' = [feature_ranges EXCEPT ![1] = << >>]
    /\ exc' = [exc EXCEPT ![1] = << >>]
    /\ at_call' = [at_call EXCEPT ![1] = NoArtifacts]
    /\ session' = [session EXCEPT !.clicked = FALSE]
    /\ UNCHANGED <<disk, writer, plot, trend>>

\* Between two runs the user sets a rendered widget to a value it accepts ...
UserEdits(w) ==
    /\ pc[1] = "idle"
    /\ session.widgets[w] # << >>
    /\ \E v \in Accepts(session.widgets[w][1].args) :
          session' = [session EXCEPT !.widgets[w][1].value = v]
    /\ UNCHANGED <<disk, pc, df, model, feature_ranges, exc, at_call, writer, plot,
                   app, trend>>

\* ... or presses the rendered button.
UserClicks ==
    /\ pc[1] = "idle"
    /\ session.widgets["year"] # << >>
    /\ ~session.clicked
    /\ session' = [session EXCEPT !.clicked = TRUE]
    /\ UNCHANGED <<disk, pc, df, model, feature_ranges, exc, at_call, writer, plot,
                   app, trend>>

----------------------------------------------------------------------------
(* create_country_trend_plot *)

Countries == {"China", "Germany", "Thailand"}

TrendRows ==
    {[country |-> c, year |-> Scale, life |-> Scale, gdp |-> g] :
        c \in Countries, g \in {0, 1}}

TrendTables == SeqsUpTo(TrendRows, MaxTrendRows)

RangeOf(seq) == {seq[i] : i \in 1..Len(seq)}

\* st.multiselect over sorted(df['country'].unique()): a non-empty list of
\* different countries of the table.
Selections(rows) ==
    {sel \in SeqsUpTo({r.country : r \in RangeOf(rows)}, Cardinality(Countries)) :
        /\ Len(sel) > 0
        /\ \A i, j \in 1..Len(sel) : sel[i] = sel[j] => i = j}

\* df[df['country'].isin(selected_countries)]
RECURSIVE IsIn(_, _)
IsIn(rows, selected) ==
    IF rows = << >> THEN << >>
    ELSE IF Head(rows).country \in RangeOf(selected)
         THEN <<Head(rows)>> \o IsIn(Tail(rows), selected)
         ELSE IsIn(Tail(rows), selected)

\* The countries of the rows, each once, in the order they first appear.
RECURSIVE Unique(_)
Unique(rows) ==
    IF rows = << >> THEN << >>
    ELSE LET rest == Unique(SubSeq(rows, 1, Len(rows) - 1))
             last == rows[Len(rows)].country
         IN IF last \in RangeOf(rest) THEN rest ELSE Append(rest, last)

\* px.line(data, x='year', y=column, color='country'): one trace per country.
PxLine(data, column) ==
    [k \in 1..Len(Unique(data)) |->
        [name |-> Unique(data)[k],
         ylabel |-> column,
         x |-> [i \in 1..Len(IsIn(data, <<Unique(data)[k]>>)) |->
                   IsIn(data, <<Unique(data)[k]>>)[i].year],
         y |-> [i \in 1..Len(IsIn(data, <<Unique(data)[k]>>)) |->
                   IF column = LIFE THEN IsIn(data, <<Unique(data)[k]>>)[i].life
                   ELSE IsIn(data, <<Unique(data)[k]>>)[i].gdp],
         yaxis |-> "y"]]

\* fig.add_trace(px.line(...).data[0]): the first GDP trace is added.
AddGdpTrace(traces, gdp_traces) == Append(traces, gdp_traces[1])

\* for i, trace in enumerate(fig.data): the first len(selected_countries)
\* traces are renamed as life expectancy, the others as GDP on y2.
UpdateTraces(traces, selected) ==
    [k \in 1..Len(traces) |->
        IF k - 1 < Len(selected)
        THEN [traces[k] EXCEPT !.name = @ \o " - Life Expectancy"]
        ELSE [traces[k] EXCEPT !.name = @ \o " - GDP", !.yaxis = "y2"]]

CreateCountryTrendPlot ==
    /\ trend = << >>
    /\ \E rows \in TrendTables :
          \E selected \in Selections(rows) :
              LET country_data == IsIn(rows, selected) IN
              trend' = <<[df |-> rows, selected_countries |-> selected,
                          data |-> UpdateTraces(
                                       AddGdpTrace(PxLine(country_data, LIFE),
                                                   PxLine(country_data, GDP)),
                                       selected)]>>
    /\ UNCHANGED <<disk, pc, df, model, feature_ranges, exc, at_call, writer, plot,
                   app, session>>

\* The figure is handed to st.plotly_chart and the script run ends.
TrendChart ==
    /\ trend # << >>
    /\ trend' = << >>
    /\ UNCHANGED <<disk, pc, df, model, feature_ranges, exc, at_call, writer, plot,
                   app, session>>

----------------------------------------------------------------------------
(* Specifications *)

InitWith(disks) ==
    /\ disk \in disks
    /\ pc = [c \in Calls |-> "idle"]
    /\ df = [c \in Calls |-> [columns |-> {}, rows |-> << >>]]
    /\ model = [c \in Calls |-> << >>]
    /\ feature_ranges = [c \in Calls |-> << >>]
    /\ exc = [c \in Calls |-> << >>]
    /\ at_call = [c \in Calls |-> NoArtifacts]
    /\ writer = [p \in Paths |-> << >>]
    /\ plot = << >>
    /\ app = AppStart
    /\ session = NoSession
    /\ trend = << >>

Init == InitWith(DisksFrom(ValidTables))

\* One caller, one train_model call after another.
Next ==
    \E c \in SeqCalls :
        \/ \E t \in Tables : Start(c, t)
        \/ ExistsModel(c)
        \/ ExistsRanges(c)
        \/ LoadModel(c)
        \/ LoadRanges(c)
        \/ SelectX(c)
        \/ SelectY(c)
        \/ Fit(c)
        \/ Ranges(c)
        \/ DumpModel(c)
        \/ DumpRanges(c)
        \/ Reset(c)

Spec == Init /\ [][Next]_vars

\* Several train_model calls at once (several script runs in one working
\* directory, none of which has run before), interleaved statement by
\* statement.
InitConc == InitWith({NoArtifacts})

NextConc ==
    \E c \in Calls :
        \/ \E t \in ConcTables : Start(c, t)
        \/ ExistsModel(c)
        \/ ExistsRanges(c)
        \/ LoadModel(c)
        \/ LoadRanges(c)
        \/ SelectX(c)
        \/ SelectY(c)
        \/ Fit(c)
        \/ Ranges(c)
        \/ DumpModel(c)
        \/ DumpRanges(c)

SpecConc == InitConc /\ [][NextConc]_vars

\* The importance reporter applied to every model and name list.
InitImp == InitWith({NoArtifacts})

NextImp == PlotFeatureImportance \/ PlotlyChart

SpecImp == InitImp /\ [][NextImp]_vars

\* One browser session of the dashboard: script runs, and the user's edits
\* and clicks between them.
InitApp == InitWith(DisksFrom({t \in AppTables : IsValid(t)}))

NextApp ==
    \/ \E t \in AppTables : Start(1, t)
    \/ ExistsModel(1)
    \/ ExistsRanges(1)
    \/ LoadModel(1)
    \/ LoadRanges(1)
    \/ SelectX(1)
    \/ SelectY(1)
    \/ Fit(1)
    \/ Ranges(1)
    \/ DumpModel(1)
    \/ DumpRanges(1)
    \/ AfterTrainModel
    \/ \E w \in Widgets : NumberInput(w)
    \/ Button
    \/ Predict
    \/ ScriptEnds
    \/ \E w \in Widgets : UserEdits(w)
    \/ UserClicks

SpecApp == InitApp /\ [][NextApp]_vars

\* The trend plot applied to every table and selection.
InitTrend == InitWith({NoArtifacts})

NextTrend == CreateCountryTrendPlot \/ TrendChart

SpecTrend == InitTrend /\ [][NextTrend]_vars

----------------------------------------------------------------------------
(* Properties *)

CachedPath == {"exists_model", "exists_ranges", "load_model", "load_ranges", "returned"}
TrainPath == {"select_X", "select_y", "fit", "ranges", "dump_model", "dump_ranges"}

HasColumns(t) == Columns \subseteq t.columns
IsEmpty(t) == Len(t.rows) = 0

\* C1: a call that begins with both artifact files present returns exactly the
\* persisted model and ranges whatever table it is given; it never enters the
\* training statements and leaves the disk as it found it.
C1_CachedArtifactReturned ==
    \A c \in Calls :
        (pc[c] # "idle" /\ BothExist(at_call[c])) =>
            /\ pc[c] \in CachedPath
            /\ disk = at_call[c]
            /\ pc[c] = "returned" =>
                  /\ model[c] = at_call[c][model_path]
                  /\ feature_ranges[c] = at_call[c][ranges_path]

\* C1 witness: a call given a table of another schema returned the cached pair.
C1_Witness ==
    \E c \in Calls :
        /\ pc[c] = "returned"
        /\ BothExist(at_call[c])
        /\ ~HasColumns(df[c])
        /\ model[c] = disk[model_path]

\* C2: a call that begins with at least one artifact file absent and is given
\* a valid table ends by returning the model fitted on that table and the
\* ranges of that table, and both files then hold exactly what it returned.
C2_TrainsAndPersists ==
    \A c \in Calls :
        (pc[c] \in Terminal /\ ~BothExist(at_call[c]) /\ IsValid(df[c])) =>
            /\ pc[c] = "returned"
            /\ model[c] = <<RandomForestFit(df[c])>>
            /\ feature_ranges[c] = <<FeatureRanges(df[c])>>
            /\ disk[model_path] = model[c]
            /\ disk[ranges_path] = feature_ranges[c]

\* C2 witness: a call that found only the model file trained, returned, and
\* replaced the model file it had found.
C2_Witness ==
    \E c \in Calls :
        /\ pc[c] = "returned"
        /\ Exists(at_call[c], model_path)
        /\ ~Exists(at_call[c], ranges_path)
        /\ IsValid(df[c])
        /\ disk[model_path] # at_call[c][model_path]
        /\ BothExist(disk)

\* Ready: both files exist and no call is in the middle of training.
Ready == BothExist(disk) /\ \A c \in Calls : pc[c] \notin TrainPath

\* C3: Ready is absorbing for sequential calls: from a Ready state no step
\* changes either file or enters training, and a call that returns returns
\* the persisted model and ranges.
C3_ReadyIsAbsorbing ==
    [][Ready =>
          /\ Ready'
          /\ disk' = disk
          /\ \A c \in Calls :
                (pc[c] # "returned" /\ pc'[c] = "returned") =>
                    /\ model'[c] = disk[model_path]
                    /\ feature_ranges'[c] = disk[ranges_path]]_vars

\* C3 witness: after a training call of this run wrote the artifact, a later
\* call with a valid table of other ranges returned the persisted ranges.
C3_Witness ==
    \E c \in Calls :
        /\ pc[c] = "returned"
        /\ BothExist(at_call[c])
        /\ writer[ranges_path] # << >>
        /\ IsValid(df[c])
        /\ feature_ranges[c] # <<FeatureRanges(df[c])>>
        /\ feature_ranges[c] = disk[ranges_path]

\* C4 as stated: every call with an empty table raises and writes no file.
C4_EmptyTableAlwaysRaises ==
    \A c \in Calls :
        (pc[c] \in Terminal /\ IsEmpty(df[c])) =>
            /\ pc[c] = "raised"
            /\ disk = at_call[c]

\* C4 amended: a call with an empty table never writes a file; if it began
\* with at least one artifact file absent it raises (the regressor's
\* ValueError at fit when the columns are there), and if it began with both
\* present it returns the cached pair.
C4_EmptyTableRaisesUnlessCached ==
    \A c \in Calls :
        (pc[c] # "idle" /\ IsEmpty(df[c])) =>
            /\ disk = at_call[c]
            /\ pc[c] \in Terminal =>
                  IF BothExist(at_call[c])
                  THEN pc[c] = "returned"
                  ELSE /\ pc[c] = "raised"
                       /\ exc[c] # << >>
                       /\ HasColumns(df[c]) =>
                             /\ exc[c][1].type = "ValueError"
                             /\ exc[c][1].at = "fit"

\* C4 witness: an empty table with every column made fit raise, disk untouched.
C4_Witness ==
    \E c \in Calls :
        /\ pc[c] = "raised"
        /\ IsEmpty(df[c])
        /\ HasColumns(df[c])
        /\ exc[c][1].type = "ValueError"
        /\ disk = at_call[c]

\* C5 as stated: every call with a table lacking a required column raises an
\* error naming a missing column, never returns, and writes no file.
C5_MissingColumnAlwaysRaises ==
    \A c \in Calls :
        (pc[c] \in Terminal /\ ~HasColumns(df[c])) =>
            /\ pc[c] = "raised"
            /\ exc[c] # << >>
            /\ exc[c][1].args # {}
            /\ exc[c][1].args \subseteq Columns \ df[c].columns
            /\ disk = at_call[c]

\* C5 amended: a call with a table lacking a required column never writes a
\* file; if it began with at least one artifact file absent it raises a
\* KeyError naming missing columns and only those; if it began with both
\* present it returns the cached pair.
C5_MissingColumnRaisesUnlessCached ==
    \A c \in Calls :
        (pc[c] # "idle" /\ ~HasColumns(df[c])) =>
            /\ disk = at_call[c]
            /\ pc[c] \in Terminal =>
                  IF BothExist(at_call[c])
                  THEN pc[c] = "returned"
                  ELSE /\ pc[c] = "raised"
                       /\ exc[c] # << >>
                       /\ exc[c][1].type = "KeyError"
                       /\ exc[c][1].args # {}
                       /\ exc[c][1].args \subseteq Columns \ df[c].columns

\* C5 witness: a table without the year column raised a KeyError naming year.
C5_Witness ==
    \E c \in Calls :
        /\ pc[c] = "raised"
        /\ YEAR \notin df[c].columns
        /\ Len(df[c].rows) > 0
        /\ exc[c][1].type = "KeyError"
        /\ YEAR \in exc[c][1].args

IsLeast(x, S) == x \in S /\ \A v \in S : x <= v
IsGreatest(x, S) == x \in S /\ \A v \in S : v <= x
IsWhole(v) == v % Scale = 0
\* x is v with its fractional part cut off (toward zero)
IsTruncationOf(x, v) ==
    /\ IsWhole(x)
    /\ IF v >= 0 THEN x <= v /\ v < x + Scale ELSE v <= x /\ x < v + Scale

\* C6 as stated: for every non-empty table the returned ranges are the exact
\* minimum and maximum of each feature over the rows of that table.
C6_RangesBoundGivenTable ==
    \A c \in Calls :
        (pc[c] = "returned" /\ IsValid(df[c])) =>
            \A f \in Features :
                /\ IsLeast(feature_ranges[c][1][f][1], ColumnValues(df[c], f))
                /\ IsGreatest(feature_ranges[c][1][f][2], ColumnValues(df[c], f))

\* C6 amended: when the call trained (it began with at least one artifact file
\* absent), the GDP and poverty ranges are the exact minimum and maximum over
\* the rows, and the year range is the minimum and the maximum with their
\* fractional parts cut off: the exact bounds when every year is whole.
C6_RangesOfTrainedTable ==
    \A c \in Calls :
        (pc[c] = "returned" /\ IsValid(df[c]) /\ ~BothExist(at_call[c])) =>
            LET r == feature_ranges[c][1] IN
            /\ DOMAIN r = Features
            /\ \A f \in Features \ {YEAR} :
                  /\ IsLeast(r[f][1], ColumnValues(df[c], f))
                  /\ IsGreatest(r[f][2], ColumnValues(df[c], f))
            /\ \E lo, hi \in ColumnValues(df[c], YEAR) :
                  /\ IsLeast(lo, ColumnValues(df[c], YEAR))
                  /\ IsGreatest(hi, ColumnValues(df[c], YEAR))
                  /\ IsTruncationOf(r[YEAR][1], lo)
                  /\ IsTruncationOf(r[YEAR][2], hi)
            /\ (\A v \in ColumnValues(df[c], YEAR) : IsWhole(v)) =>
                  /\ IsLeast(r[YEAR][1], ColumnValues(df[c], YEAR))
                  /\ IsGreatest(r[YEAR][2], ColumnValues(df[c], YEAR))

\* C6 witness: a call trained on two rows that differ in GDP and in year, the
\* greater year having a fractional part, and returned its ranges.
C6_Witness ==
    \E c \in Calls :
        /\ pc[c] = "returned"
        /\ ~BothExist(at_call[c])
        /\ IsValid(df[c])
        /\ Cardinality(ColumnValues(df[c], GDP)) > 1
        /\ Cardinality(ColumnValues(df[c], YEAR)) > 1
        /\ feature_ranges[c][1][GDP][1] < feature_ranges[c][1][GDP][2]
        /\ \E v \in ColumnValues(df[c], YEAR) : feature_ranges[c][1][YEAR][2] < v

AllFinished == \A c \in Calls : pc[c] \notin Active

\* What call c wrote, or would write, to a path.
Written(c, path) == IF path = model_path THEN model[c] ELSE feature_ranges[c]

\* C7: when two calls that both began with no artifact on disk have both
\* trained and returned, and no call is running, both files exist and each
\* holds what the call that dumped to it last wrote.
C7_LastWriterWins ==
    (/\ AllFinished
     /\ \E c1, c2 \in Calls :
           /\ c1 # c2
           /\ \A c \in {c1, c2} :
                 /\ pc[c] = "returned"
                 /\ at_call[c] = NoArtifacts
                 /\ model[c] = <<RandomForestFit(df[c])>>) =>
        \A p \in Paths :
            /\ Exists(disk, p)
            /\ writer[p] # << >>
            /\ disk[p] = Written(writer[p][1], p)

\* C7 witness: two calls given different tables both began with no artifact,
\* both passed the check, trained and wrote; one wrote the model file last and
\* the other the ranges file.
C7_Witness ==
    /\ AllFinished
    /\ \E c1, c2 \in Calls :
          /\ c1 # c2
          /\ \A c \in {c1, c2} :
                /\ pc[c] = "returned"
                /\ at_call[c] = NoArtifacts
                /\ model[c] = <<RandomForestFit(df[c])>>
          /\ df[c1] # df[c2]
          /\ writer[model_path] = <<c1>>
          /\ writer[ranges_path] = <<c2>>

\* A model and ranges that one training run produced together.
FromOneRun(m, r) ==
    \E t \in {u \in ConcTables : IsValid(u)} :
        m = <<RandomForestFit(t)>> /\ r = <<FeatureRanges(t)>>

\* C10: under any interleaving, every returned pair, and the pair of files on
\* disk once all calls have finished, is the model and the ranges of one and
\* the same training run.
C10_PairsFromOneRun ==
    /\ \A c \in Calls : pc[c] = "returned" => FromOneRun(model[c], feature_ranges[c])
    /\ (AllFinished /\ BothExist(disk)) => FromOneRun(disk[model_path], disk[ranges_path])

\* C9: the reporter raises when the number of names differs from the number of
\* scores; otherwise the figure has one bar per feature, ascending by score,
\* each bar pairing the i-th name with the i-th score.
C9_ImportanceRanking ==
    plot # << >> =>
        LET p == plot[1] IN
        IF Len(p.features) # Len(p.importance)
        THEN p.fig = << >> /\ p.exc # << >>
        ELSE /\ p.exc = << >>
             /\ p.fig # << >>
             /\ LET n == Len(p.features)
                    x == p.fig[1].x
                    y == p.fig[1].y
                IN /\ Len(x) = n
                   /\ Len(y) = n
                   /\ \A i, j \in 1..n : i < j => x[i] <= x[j]
                   /\ \E q \in Perms(n) :
                         \A k \in 1..n :
                             /\ y[k] = p.features[q[k]]
                             /\ x[k] = p.importance[q[k]]

\* C9 witness: three names with three different scores, given out of order,
\* came back as a figure.
C9_Witness ==
    /\ plot # << >>
    /\ plot[1].fig # << >>
    /\ Len(plot[1].features) = Len(features)
    /\ plot[1].importance[1] > plot[1].importance[2]
    /\ plot[1].importance[2] > plot[1].importance[3]
    /\ plot[1].fig[1].y[1] = plot[1].features[3]

InRange(v, range) == range[1] <= v /\ v <= range[2]

\* C11: in a script run predict_life_expectancy is called only if the button
\* returned True in that run, and with a gdp, a poverty rate and a year that
\* each lie within the range train_model returned in that run.
C11_PredictWithinRanges ==
    app.predicted # << >> =>
        /\ app.button
        /\ pc[1] = "returned"
        /\ app.predicted[1].model = model[1]
        /\ InRange(app.predicted[1].gdp, feature_ranges[1][1][GDP])
        /\ InRange(app.predicted[1].poverty_rate, feature_ranges[1][1][POV])
        /\ InRange(app.predicted[1].year, feature_ranges[1][1][YEAR])

\* C11 witness: the user moved the GDP and the year away from their defaults,
\* pressed the button, and the run predicted with those values.
C11_Witness ==
    /\ app.predicted # << >>
    /\ app.predicted[1].gdp # feature_ranges[1][1][GDP][1]
    /\ app.predicted[1].year # feature_ranges[1][1][YEAR][2]
    /\ app.button

\* C12: for every selection of countries that have rows, the figure holds one
\* life-expectancy trace and one GDP trace per selected country: the first
\* len(selected_countries) traces are the life-expectancy traces, named
\* '<country> - Life Expectancy', and all the others are GDP traces, named
\* '<country> - GDP' and on axis y2.
C12_TraceLayout ==
    trend # << >> =>
        LET sel == trend[1].selected_countries
            tr == trend[1].data
            n == Len(sel)
        IN /\ \A c \in RangeOf(sel) :
                 /\ Cardinality({k \in 1..Len(tr) :
                        tr[k].ylabel = LIFE /\ tr[k].name = c \o " - Life Expectancy"}) = 1
                 /\ Cardinality({k \in 1..Len(tr) :
                        tr[k].ylabel = GDP /\ tr[k].name = c \o " - GDP"}) = 1
           /\ \A k \in 1..Len(tr) :
                 IF k <= n
                 THEN /\ tr[k].ylabel = LIFE
                      /\ \E c \in RangeOf(sel) : tr[k].name = c \o " - Life Expectancy"
                 ELSE /\ tr[k].ylabel = GDP
                      /\ tr[k].yaxis = "y2"
                      /\ \E c \in RangeOf(sel) : tr[k].name = c \o " - GDP"

====
